---- MODULE Spec2Model ----
(***************************************************************************)
(* SimpleRecommendationService (services/simple_recommendation_service.py) *)
(* as a state machine: one service instance, the model file on disk, and   *)
(* the value returned by the last call.                                    *)
(*                                                                         *)
(* Numbers.  The service computes with floats.  Here every float is an     *)
(* exact rational <<n, d>> (d > 0, lowest terms); a cosine similarity,     *)
(* which needs a square root, is the pair <<dot, nn>> standing for         *)
(* dot / sqrt(nn); a popularity score avg * ln(c + 1) is the pair          *)
(* <<avg, c>> compared through a fixed-point table of logarithms.          *)
(***************************************************************************)
EXTENDS Integers, Sequences, FiniteSets, TLC

(***************************************************************************)
(* Bounds of the model.                                                    *)
(***************************************************************************)
\* n_recommendations / n_items arguments range over 1..MaxCount
MaxCount == 2

(***************************************************************************)
(* Rationals                                                               *)
(***************************************************************************)
RECURSIVE GCD(_, _)
GCD(a, b) == IF b = 0 THEN a ELSE GCD(b, a % b)

AbsInt(n) == IF n < 0 THEN -n ELSE n

\* float('nan'): a comparison with it is false, arithmetic on it gives it
NaN == <<0, 0>>

IsNaN(x) == x[2] = 0

Rat(n, d) ==
    IF d = 0 THEN NaN
    ELSE LET g == GCD(AbsInt(n), d) IN <<n \div g, d \div g>>

R(n) == <<n, 1>>

RAdd(x, y) == Rat(x[1] * y[2] + y[1] * x[2], x[2] * y[2])

RSub(x, y) == Rat(x[1] * y[2] - y[1] * x[2], x[2] * y[2])

RMul(x, y) == Rat(x[1] * y[1], x[2] * y[2])

RDivInt(x, k) == Rat(x[1], x[2] * k)

RLt(x, y) == x[1] * y[2] < y[1] * x[2]

RLe(x, y) == ~IsNaN(x) /\ ~IsNaN(y) /\ x[1] * y[2] <= y[1] * x[2]

RAbs(x) == <<AbsInt(x[1]), x[2]>>

\* Python's max(a, b) and min(a, b) on floats: the first argument wins a tie.
RMax(x, y) == IF RLt(x, y) THEN y ELSE x

RMin(x, y) == IF RLt(y, x) THEN y ELSE x

\* Python 3 round(x) with one argument: nearest integer, a tie goes to the
\* even neighbour.  \div and % round towards minus infinity in TLA+.
PyRound(x) ==
    LET fl  == x[1] \div x[2]
        rem == x[1] % x[2]
    IN  IF 2 * rem < x[2] THEN fl
        ELSE IF 2 * rem > x[2] THEN fl + 1
        ELSE IF fl % 2 = 0 THEN fl ELSE fl + 1

(***************************************************************************)
(* Sequences                                                               *)
(***************************************************************************)
SeqToSet(s) == {s[k] : k \in DOMAIN s}

\* list[:n] for n >= 0
Take(s, n) == SubSeq(s, 1, IF n < Len(s) THEN n ELSE Len(s))

\* the 1-based position of x in s (s holds x once)
IndexOf(s, x) == CHOOSE k \in DOMAIN s : s[k] = x

\* the sub-list of s, in order, of the elements satisfying keep
Filter(s, keep(_)) ==
    LET f[k \in 0..Len(s)] ==
            IF k = 0 THEN <<>>
            ELSE IF keep(s[k]) THEN Append(f[k - 1], s[k]) ELSE f[k - 1]
    IN  f[Len(s)]

RECURSIVE SumSeq(_)
SumSeq(s) == IF s = <<>> THEN 0 ELSE Head(s) + SumSeq(Tail(s))

RECURSIVE RSumSeq(_)
RSumSeq(s) == IF s = <<>> THEN R(0) ELSE RAdd(Head(s), RSumSeq(Tail(s)))

\* list.sort(key = ..., reverse = True) as CPython runs it on a short list:
\* the list is reversed, sorted ascending and stably (the run the list starts
\* with is found, turned round when it descends strictly, and the rest is put
\* in by binary insertion), and reversed again.  lt(a, b) is key(a) < key(b).
\* With keys that are totally ordered the result is the descending order in
\* which elements of equal key keep their places; a NaN key, for which every
\* comparison is false, stays where the comparisons leave it.
SortDesc(s, lt(_, _)) ==
    LET n == Len(s)
        a == [k \in 1..n |-> s[n + 1 - k]]
        descending == n >= 2 /\ lt(a[2], a[1])
        InRun(k) == IF descending THEN lt(a[k], a[k - 1])
                    ELSE ~lt(a[k], a[k - 1])
        run == IF n < 2 THEN n
               ELSE CHOOSE r \in 2..n :
                        /\ \A k \in 2..r : InRun(k)
                        /\ r = n \/ ~InRun(r + 1)
        start == [k \in 1..n |->
                     IF descending /\ k <= run THEN a[run + 1 - k] ELSE a[k]]
        \* the number of elements of b[1..m-1] that b[m] is put behind
        Pos(b, m) ==
            LET bs[l \in 0..m, r \in 0..m] ==
                    IF l >= r THEN l
                    ELSE LET p == l + ((r - l) \div 2)
                         IN  IF lt(b[m], b[p + 1]) THEN bs[l, p]
                             ELSE bs[p + 1, r]
            IN  bs[0, m - 1]
        Ins(b, m) ==
            LET l == Pos(b, m)
            IN  [k \in 1..n |->
                    IF k <= l THEN b[k]
                    ELSE IF k = l + 1 THEN b[m]
                    ELSE IF k <= m THEN b[k - 1]
                    ELSE b[k]]
        f[m \in 1..n] == IF m <= run THEN start ELSE Ins(f[m - 1], m)
        sorted == IF n < 2 THEN a ELSE f[n]
    IN  [k \in 1..n |-> sorted[n + 1 - k]]

(***************************************************************************)
(* Identifiers and rating lists                                            *)
(***************************************************************************)
\* the identifiers of the model in the order Python compares strings
LabelOrder == <<"A", "B", "C", "X", "u1", "u2", "u3", "u4", "u5", "uX">>

LabelLt(a, b) == IndexOf(LabelOrder, a) < IndexOf(LabelOrder, b)

\* the identifiers callers pass to the queries; "uX" and "X" occur in no
\* rating list
UserIds == {"u1", "u2", "uX"}

ItemIds == {"A", "B", "C", "X"}

\* sorted(S) for a set of identifiers
RECURSIVE SortedLabels(_)
SortedLabels(S) ==
    IF S = {} THEN <<>>
    ELSE LET m == CHOOSE x \in S : \A y \in S : ~LabelLt(y, x)
         IN  <<m>> \o SortedLabels(S \ {m})

Rating(u, i, r) == [user_id |-> u, product_id |-> i, rating |-> r]

\* the scenario of the specification's section 8
ExampleRatings ==
    << Rating("u1", "A", 5), Rating("u1", "B", 1), Rating("u2", "A", 4),
       Rating("u2", "B", 2), Rating("u2", "C", 5) >>

\* ratings outside 1..5: u1 has no rating above 0, nobody rated B above 0,
\* A and C get the same ratings
OutOfRangeRatings ==
    << Rating("u1", "B", 0), Rating("u2", "A", 7), Rating("u2", "C", 7) >>

\* two ratings of the same (user, item) pair
DuplicateRatings ==
    << Rating("u1", "A", 5), Rating("u1", "A", 3), Rating("u2", "B", 4) >>

\* a frame with the three columns and no row
EmptyRatings == <<>>

\* five users, so that items reach the default popularity threshold: A and B
\* have five ratings each (B the better ones), C has one
PopularRatings ==
    << Rating("u1", "A", 4), Rating("u2", "A", 3), Rating("u3", "A", 4),
       Rating("u4", "A", 5), Rating("u5", "A", 4),
       Rating("u1", "B", 5), Rating("u2", "B", 4), Rating("u3", "B", 5),
       Rating("u4", "B", 5), Rating("u5", "B", 5),
       Rating("u1", "C", 2) >>

\* the frames the callers of Spec pass to prepare_data
RatingLists ==
    {ExampleRatings, OutOfRangeRatings, PopularRatings, EmptyRatings}

\* one user; the rating 0 leaves item B, between A and C, a column without a
\* rating above 0
ZeroColumnRatings ==
    << Rating("u1", "A", 1), Rating("u1", "B", 0), Rating("u1", "C", 5) >>

\* the frames the callers of RankingSpec pass to prepare_data
RankingLists ==
    {ExampleRatings, OutOfRangeRatings, PopularRatings, ZeroColumnRatings,
     DuplicateRatings, EmptyRatings}

(***************************************************************************)
(* The values of the instance fields                                       *)
(***************************************************************************)
\* Every field value and every returned value is a record, so that any two
\* of them can be compared.
None == [none |-> TRUE]

\* an attribute __init__ does not set: hasattr(self, ...) is False
Absent == [absent |-> TRUE]

\* a DataFrame of ratings, one row per rating
Frame(rows) == [rows |-> rows]

\* a numpy array
Array(a) == [array |-> a]

\* the failure handed back under a key that is not "error"
ErrAsStatus(kind) == [status |-> kind]

\* return {"error": str(e)}
Err(kind) == [error |-> kind]

IsError(ret) == "error" \in DOMAIN ret

\* DataFrame.pivot(index='user_id', columns='product_id',
\* values='rating').fillna(0): rows and columns are the sorted identifiers,
\* a pair without a rating holds 0; a pair rated twice raises ValueError
HasDuplicatePair(rows) ==
    \E j, k \in DOMAIN rows :
        j # k /\ rows[j].user_id = rows[k].user_id
              /\ rows[j].product_id = rows[k].product_id

CellOf(rows, u, i) ==
    IF \E k \in DOMAIN rows : rows[k].user_id = u /\ rows[k].product_id = i
    THEN rows[CHOOSE k \in DOMAIN rows :
                  rows[k].user_id = u /\ rows[k].product_id = i].rating
    ELSE 0

pivot(rows) ==
    LET index   == SortedLabels({rows[k].user_id : k \in DOMAIN rows})
        columns == SortedLabels({rows[k].product_id : k \in DOMAIN rows})
    IN  [index   |-> index,
         columns |-> columns,
         values  |-> [r \in DOMAIN index |->
                        [c \in DOMAIN columns |->
                            CellOf(rows, index[r], columns[c])]]]

\* what a call that raises hands to its caller
Raised(kind) == [raised |-> kind]

\* NMF(n_components=10, ...)
n_components == 10

\* the estimator object; fitted once fit_transform has returned
Estimator(fitted) ==
    [type |-> "NMF", n_components |-> n_components, fitted |-> fitted]

\* SimpleRecommendationService.__init__: user_factors and item_factors are
\* not set
NewService ==
    [model            |-> None,
     user_item_matrix |-> None,
     user_factors     |-> Absent,
     item_factors     |-> Absent,
     ratings_df       |-> None]

\* NMF.fit_transform(X) and NMF.components_.  The solver's arithmetic is
\* outside the repository; its result is some pair of non-negative factor
\* matrices W (users x n_components) and H (n_components x items).  The
\* model draws it from the factorizations W = g * [X | 0], H = h * [I | 0],
\* whose product is g * h * X; fit = <<g, h>>.  sklearn rejects an array
\* without samples with ValueError.
FitRaises(X) == Len(X.index) = 0 \/ Len(X.columns) = 0

fit_transform(X, fit) ==
    [r \in DOMAIN X.index |->
        [k \in 1..n_components |->
            IF k <= Len(X.columns) THEN RMul(fit[1], R(X.values[r][k]))
            ELSE R(0)]]

components_(X, fit) ==
    [k \in 1..n_components |->
        [c \in DOMAIN X.columns |-> IF k = c THEN fit[2] ELSE R(0)]]

\* the factorizations a training run may return: an exact one (g * h = 1) and
\* one that overshoots (g * h = 3/2)
FitOutcomes == { <<Rat(1, 2), Rat(2, 1)>>, <<Rat(1, 2), Rat(3, 1)>> }

\* the number of cells, whatever they hold
CountCells(X) == Len(X.index) * Len(X.columns)

\* np.count_nonzero(matrix.values)
CountNonzero(X) ==
    SumSeq([r \in DOMAIN X.index |->
               Cardinality({c \in DOMAIN X.columns : X.values[r][c] # 0})])

(***************************************************************************)
(* The operations that change the instance.  Each gives the instance after *)
(* the call and what the call returns.                                     *)
(***************************************************************************)
prepare_data(self, df) ==
    LET stored == [self EXCEPT !.ratings_df = Frame(df)]
    IN  IF HasDuplicatePair(df)
        THEN [self |-> stored, ret |-> Raised("ValueError")]
        ELSE [self |-> [stored EXCEPT !.user_item_matrix = pivot(df)],
              ret  |-> None]

train_model(self, algorithm, fit) ==
    LET X == self.user_item_matrix
    IN  IF X = None
        THEN [self |-> self, ret |-> Err("Data not prepared")]
        ELSE IF algorithm # "NMF"
        THEN [self |-> self, ret |-> Err("Unsupported algorithm")]
        ELSE IF FitRaises(X)
        THEN [self |-> [self EXCEPT !.model = Estimator(FALSE)],
              ret  |-> Err("fit_transform raised")]
        ELSE LET n_users   == Len(X.index)
                 n_items   == Len(X.columns)
                 n_ratings == CountNonzero(X)
             IN  [self |-> [self EXCEPT
                              !.model        = Estimator(TRUE),
                              !.user_factors = Array(fit_transform(X, fit)),
                              !.item_factors = Array(components_(X, fit))],
                  ret  |-> [algorithm |-> algorithm,
                            n_users   |-> n_users,
                            n_items   |-> n_items,
                            n_ratings |-> n_ratings,
                            sparsity  |->
                                RSub(R(1), Rat(n_ratings, n_users * n_items))]]

\* the attribute is not written to the bundle
AlwaysNone(v) == None

\* getattr(self, name, None)
GetAttr(v) == IF v = Absent THEN None ELSE v

\* the file at model_path: Missing, Corrupt (not a pickle), or the dict
\* save_model pickled
Missing == [missing |-> TRUE]

Corrupt == [corrupt |-> TRUE]

\* a pickle of something that has no 'model' entry
Incomplete == [incomplete |-> TRUE]

save_model(self, file) ==
    IF self.model = None
    THEN [file |-> file, ret |-> Err("No model to save")]
    ELSE [file |-> [model            |-> self.model,
                    user_item_matrix |-> self.user_item_matrix,
                    user_factors     |-> GetAttr(self.user_factors),
                    item_factors     |-> GetAttr(self.item_factors),
                    ratings_df       |-> self.ratings_df],
          ret  |-> [status |-> "success"]]

\* a load that clears the instance before it reads the file
LoadClearsFirst(self, file) ==
    IF file = Missing
    THEN [self |-> NewService, ret |-> Err("FileNotFoundError")]
    ELSE IF file = Corrupt
    THEN [self |-> NewService, ret |-> Err("UnpicklingError")]
    ELSE IF file = Incomplete
    THEN [self |-> NewService, ret |-> Err("KeyError")]
    ELSE [self |-> [model            |-> file.model,
                    user_item_matrix |-> file.user_item_matrix,
                    user_factors     |-> file.user_factors,
                    item_factors     |-> file.item_factors,
                    ratings_df       |-> file.ratings_df],
          ret  |-> [status |-> "success"]]

\* model_data['model'] (line 202) raises before any field is assigned when the
\* entry is missing; the other entries are read with .get
load_model(self, file) ==
    IF file = Missing
    THEN [self |-> self, ret |-> Err("FileNotFoundError")]
    ELSE IF file = Corrupt
    THEN [self |-> self, ret |-> Err("UnpicklingError")]
    ELSE IF file = Incomplete
    THEN [self |-> self, ret |-> Err("KeyError")]
    ELSE [self |-> [model            |-> file.model,
                    user_item_matrix |-> file.user_item_matrix,
                    user_factors     |-> file.user_factors,
                    item_factors     |-> file.item_factors,
                    ratings_df       |-> file.ratings_df],
          ret  |-> [status |-> "success"]]

(***************************************************************************)
(* The queries: what each returns on the instance self.                    *)
(***************************************************************************)
\* matrix[item] and matrix.loc[user] as lists of cell values
ColumnOf(X, c) == [r \in DOMAIN X.index |-> X.values[r][c]]

RowOf(X, r) == X.values[r]

IsPositive(v) == v > 0

\* the mean taken over every cell, the unset ones included
MeanOfAll(cells) == Rat(SumSeq(cells), Len(cells))

\* ratings[ratings > 0].mean(): NaN when no rating is above 0
MeanPositive(cells) ==
    LET pos == Filter(cells, IsPositive) IN Rat(SumSeq(pos), Len(pos))

\* 1000 * ln(k) for k = 1..6, rounded: np.log in fixed point
LnMilli == <<0, 693, 1099, 1386, 1609, 1792>>

NpLog(k) == Rat(LnMilli[k], 1000)

WeightedLt(a, b) == RLt(a.weighted_score, b.weighted_score)

\* item_stats.sort(key=lambda x: x['weighted_score'], reverse=True)
SortByWeighted(item_stats) == SortDesc(item_stats, WeightedLt)

ItemStat(X, c) ==
    LET ratings == Filter(ColumnOf(X, c), IsPositive)
        avg     == Rat(SumSeq(ratings), Len(ratings))
    IN  [product_id     |-> X.columns[c],
         average_rating |-> avg,
         num_ratings    |-> Len(ratings),
         weighted_score |-> RMul(avg, NpLog(Len(ratings) + 1))]

\* the threshold is not looked at
QualifiesAlways(num_ratings, min_ratings) == TRUE

\* if len(ratings) >= min_ratings
Qualifies(num_ratings, min_ratings) == num_ratings >= min_ratings

get_popular_items(self, n_items, min_ratings) ==
    LET X == self.user_item_matrix
    IN  IF X = None THEN Err("User-item matrix not available")
        ELSE LET all        == [c \in DOMAIN X.columns |-> ItemStat(X, c)]
                 Enough(st) == Qualifies(st.num_ratings, min_ratings)
                 item_stats == SortByWeighted(Filter(all, Enough))
             IN  [popular_items          |-> Take(item_stats, n_items),
                  min_ratings_threshold  |-> min_ratings,
                  total_qualifying_items |-> Len(item_stats)]

\* get_popular_items(n_items, min_ratings=5)
DefaultMinRatings == 5

\* sklearn's cosine_similarity of two columns: the rows are normalised (a
\* zero norm counts as 1) and multiplied, so a column of zeros has similarity
\* 0 to every column.  A similarity x is held as the rational x * |x|, which
\* orders as x does and avoids the square root; |x| is then held as RAbs.
DotInt(a, b) == SumSeq([k \in DOMAIN a |-> a[k] * b[k]])

cosine_similarity(a, b) ==
    LET dot == DotInt(a, b)
        nn  == DotInt(a, a) * DotInt(b, b)
    IN  IF nn = 0 THEN R(0) ELSE Rat(dot * AbsInt(dot), nn)

SimilarityLt(a, b) == RLt(a.similarity_score, b.similarity_score)

\* the list left in column order
NotSorted(similar_items) == similar_items

\* similar_items.sort(key=lambda x: x['similarity_score'], reverse=True)
SortBySimilarity(similar_items) == SortDesc(similar_items, SimilarityLt)

\* an item_id that is no column of the matrix gets an empty list
UnknownItemEmpty(item_id) ==
    [item_id         |-> item_id,
     similar_items   |-> <<>>,
     total_available |-> 0]

\* the return for an item_id that is no column of the matrix
UnknownItem(item_id) == Err("Item not found in training data")

get_item_recommendations(self, item_id, n_recommendations) ==
    LET X == self.user_item_matrix
    IN  IF X = None THEN Err("Model not trained")
        ELSE IF item_id \notin SeqToSet(X.columns)
        THEN UnknownItem(item_id)
        ELSE LET item_idx == IndexOf(X.columns, item_id)
                 Entry(c) ==
                    LET sim == cosine_similarity(ColumnOf(X, item_idx),
                                                 ColumnOf(X, c))
                    IN  [product_id       |-> X.columns[c],
                         similarity_score |-> sim,
                         confidence       |-> RAbs(sim)]
                 Other(e) == e.product_id # item_id
                 similar_items ==
                    SortBySimilarity(
                        Filter([c \in DOMAIN X.columns |-> Entry(c)], Other))
             IN  [item_id         |-> item_id,
                  similar_items   |-> Take(similar_items, n_recommendations),
                  total_available |-> Len(similar_items)]

\* the product taken with the first column, whatever the item
DotFirstColumn(user_vector, item_factors, c) ==
    RSumSeq([k \in DOMAIN user_vector |->
                RMul(user_vector[k], item_factors[k][1])])

\* np.dot of a factor row and a factor column
Dot(user_vector, item_factors, c) ==
    RSumSeq([k \in DOMAIN user_vector |->
                RMul(user_vector[k], item_factors[k][c])])

\* the number of columns of the (n_components x items) array
NumColumns(item_factors) == Len(item_factors[1])

PredictedLt(a, b) == RLt(a.predicted_rating, b.predicted_rating)

\* an ascending sort read backwards: equal scores come out in reverse order
SortAscendingReversed(predictions) ==
    LET backwards == [k \in 1..Len(predictions) |->
                         predictions[Len(predictions) + 1 - k]]
    IN  SortDesc(backwards, PredictedLt)

\* predictions.sort(key=lambda x: x['predicted_rating'], reverse=True)
SortByPredicted(predictions) == SortDesc(predictions, PredictedLt)

\* a user_id that is no row of the matrix is refused
ColdStartError(self, n_recommendations) == Err("User not found")

\* a user_id that is no row of the matrix gets the popular items
ColdStart(self, n_recommendations) ==
    get_popular_items(self, n_recommendations, DefaultMinRatings)

\* nothing is left out
NoRatedItems(X, user_idx, exclude_rated) == {}

\* the items the user rated above 0, when they are to be left out
RatedItems(X, user_idx, exclude_rated) ==
    IF exclude_rated
    THEN {X.columns[c] : c \in {c \in DOMAIN X.columns :
                                   RowOf(X, user_idx)[c] > 0}}
    ELSE {}

\* the clamp with its lower bound forgotten
ClampUpperOnly(x) == RMin(R(5), x)

\* max(1.0, min(5.0, x))
Clamp(x) == RMax(R(1), RMin(R(5), x))

\* 1 - abs(x - round(x))
RoundConfidence(x) == RSub(R(1), RAbs(RSub(x, R(PyRound(x)))))

\* min(x / 5.0, 1.0)
ScaleConfidence(x) == RMin(RDivInt(x, 5), R(1))

get_user_recommendations(self, user_id, n_recommendations, exclude_rated) ==
    LET X == self.user_item_matrix
    IN  IF self.model = None \/ X = None THEN Err("Model not trained")
        ELSE IF user_id \notin SeqToSet(X.index)
        THEN ColdStart(self, n_recommendations)
        ELSE
        LET user_idx    == IndexOf(X.index, user_id)
            rated_items == RatedItems(X, user_idx, exclude_rated)
        IN  IF self.user_factors = Absent \/ self.item_factors = Absent
            THEN [user_id              |-> user_id,
                  recommendations      |-> <<>>,
                  total_available      |-> 0,
                  excluded_rated_items |-> Cardinality(rated_items)]
            ELSE IF self.user_factors = None \/ self.item_factors = None
            THEN Err("TypeError")
            ELSE IF user_idx > Len(self.user_factors.array)
            THEN Err("IndexError")
            ELSE
            LET user_vector == self.user_factors.array[user_idx]
                H           == self.item_factors.array
                \* zip(columns, predicted_ratings) stops at the shorter one
                zipped      == IF NumColumns(H) < Len(X.columns)
                               THEN NumColumns(H) ELSE Len(X.columns)
                Pred(c)     ==
                    LET predicted_rating == Dot(user_vector, H, c)
                    IN  [product_id       |-> X.columns[c],
                         predicted_rating |-> predicted_rating,
                         confidence       |-> ScaleConfidence(predicted_rating)]
                Kept(e)     == e.product_id \notin rated_items
                predictions ==
                    SortByPredicted(Filter([c \in 1..zipped |-> Pred(c)], Kept))
            IN  [user_id              |-> user_id,
                 recommendations      |-> Take(predictions, n_recommendations),
                 total_available      |-> Len(predictions),
                 excluded_rated_items |-> Cardinality(rated_items)]

\* avg if not np.isnan(avg) else 3.0
OrDefault(avg) == IF IsNaN(avg) THEN R(3) ELSE avg

\* an identifier that is not in the matrix raises
FallbackRaises(user_id, item_id, raw, was_impossible) ==
    IF was_impossible THEN Err("KeyError")
    ELSE [user_id          |-> user_id,
          item_id          |-> item_id,
          predicted_rating |-> Clamp(raw),
          was_impossible   |-> was_impossible,
          confidence       |-> RoundConfidence(Clamp(raw))]

\* result = {...}, lines 442-450
PredictResult(user_id, item_id, raw, was_impossible) ==
    LET predicted_rating == Clamp(raw)
    IN  [user_id          |-> user_id,
         item_id          |-> item_id,
         predicted_rating |-> predicted_rating,
         was_impossible   |-> was_impossible,
         confidence       |-> RoundConfidence(predicted_rating)]

predict_rating(self, user_id, item_id) ==
    LET X == self.user_item_matrix
    IN  IF self.model = None \/ X = None THEN Err("Model not trained")
        ELSE IF user_id \notin SeqToSet(X.index)
        THEN IF item_id \in SeqToSet(X.columns)
             THEN PredictResult(user_id, item_id,
                     OrDefault(MeanPositive(
                         ColumnOf(X, IndexOf(X.columns, item_id)))), TRUE)
             ELSE PredictResult(user_id, item_id, R(3), TRUE)
        ELSE IF item_id \notin SeqToSet(X.columns)
        THEN PredictResult(user_id, item_id,
                 OrDefault(MeanPositive(
                     RowOf(X, IndexOf(X.index, user_id)))), TRUE)
        ELSE IF self.user_factors = Absent \/ self.item_factors = Absent
        THEN PredictResult(user_id, item_id, R(3), TRUE)
        ELSE IF self.user_factors = None \/ self.item_factors = None
        THEN Err("TypeError")
        ELSE LET user_idx == IndexOf(X.index, user_id)
                 item_idx == IndexOf(X.columns, item_id)
             IN  IF \/ user_idx > Len(self.user_factors.array)
                    \/ item_idx > NumColumns(self.item_factors.array)
                 THEN Err("IndexError")
                 ELSE PredictResult(user_id, item_id,
                          Dot(self.user_factors.array[user_idx],
                              self.item_factors.array, item_idx), FALSE)

\* every cell of the matrix, row after row
AllCells(X) ==
    LET f[r \in 0..Len(X.index)] ==
            IF r = 0 THEN <<>> ELSE f[r - 1] \o X.values[r]
    IN  f[Len(X.index)]

get_model_stats(self) ==
    LET X == self.user_item_matrix
    IN  IF self.model = None \/ X = None THEN Err("No model trained")
        ELSE LET n_users   == Len(X.index)
                 n_items   == Len(X.columns)
                 n_ratings == CountNonzero(X)
             IN  IF n_users * n_items = 0 THEN Err("ZeroDivisionError")
                 ELSE [model_type   |-> self.model.type,
                       n_users      |-> n_users,
                       n_items      |-> n_items,
                       n_ratings    |-> n_ratings,
                       global_mean  |-> MeanPositive(AllCells(X)),
                       sparsity     |->
                           RSub(R(1), Rat(n_ratings, n_users * n_items)),
                       n_components |-> self.model.n_components]

(***************************************************************************)
(* The state: the fields of the one service instance the application       *)
(* holds, the model file, and the last call with what it returned.         *)
(***************************************************************************)
VARIABLES model, user_item_matrix, user_factors, item_factors, ratings_df,
          file, result

instance == <<model, user_item_matrix, user_factors, item_factors, ratings_df>>

vars == <<model, user_item_matrix, user_factors, item_factors, ratings_df,
          file, result>>

Self ==
    [model            |-> model,
     user_item_matrix |-> user_item_matrix,
     user_factors     |-> user_factors,
     item_factors     |-> item_factors,
     ratings_df       |-> ratings_df]

Becomes(self) ==
    /\ model' = self.model
    /\ user_item_matrix' = self.user_item_matrix
    /\ user_factors' = self.user_factors
    /\ item_factors' = self.item_factors
    /\ ratings_df' = self.ratings_df

Call(op, args, ret) == [op |-> op, args |-> args, ret |-> ret]

\* the arguments the callers pass
Algorithms == {"NMF", "SVD"}

Counts == 1..MaxCount

MinRatingsArgs == {1, 2, DefaultMinRatings}

\* the instance after prepare_data(df) and train_model("NMF")
TrainedOn(df, fit) ==
    train_model(prepare_data(NewService, df).self, "NMF", fit).self

\* what an earlier run of the application may have left at model_path:
\* nothing, the model it saved after training on the example ratings, or the
\* one it saved after a training that failed
InitialFiles ==
    { Missing,
      save_model(TrainedOn(ExampleRatings, <<Rat(1, 2), Rat(2, 1)>>),
                 Missing).file,
      save_model(TrainedOn(EmptyRatings, <<Rat(1, 2), Rat(2, 1)>>),
                 Missing).file }

Init ==
    /\ model = NewService.model
    /\ user_item_matrix = NewService.user_item_matrix
    /\ user_factors = NewService.user_factors
    /\ item_factors = NewService.item_factors
    /\ ratings_df = NewService.ratings_df
    /\ file \in InitialFiles
    /\ result = Call("__init__", None, None)

PrepareData(df) ==
    LET out == prepare_data(Self, df)
    IN  /\ Becomes(out.self)
        /\ result' = Call("prepare_data", [ratings_df |-> Frame(df)], out.ret)
        /\ UNCHANGED file

TrainModel(algorithm, fit) ==
    LET out == train_model(Self, algorithm, fit)
    IN  /\ Becomes(out.self)
        /\ result' = Call("train_model", [algorithm |-> algorithm], out.ret)
        /\ UNCHANGED file

SaveModel ==
    LET out == save_model(Self, file)
    IN  /\ file' = out.file
        /\ result' = Call("save_model", None, out.ret)
        /\ UNCHANGED instance

LoadModel ==
    LET out == load_model(Self, file)
    IN  /\ Becomes(out.self)
        /\ result' = Call("load_model", None, out.ret)
        /\ UNCHANGED file

GetUserRecommendations(user_id, n_recommendations, exclude_rated) ==
    /\ result' = Call("get_user_recommendations",
                      [user_id           |-> user_id,
                       n_recommendations |-> n_recommendations,
                       exclude_rated     |-> exclude_rated],
                      get_user_recommendations(Self, user_id,
                          n_recommendations, exclude_rated))
    /\ UNCHANGED <<instance, file>>

GetItemRecommendations(item_id, n_recommendations) ==
    /\ result' = Call("get_item_recommendations",
                      [item_id           |-> item_id,
                       n_recommendations |-> n_recommendations],
                      get_item_recommendations(Self, item_id,
                          n_recommendations))
    /\ UNCHANGED <<instance, file>>

GetPopularItems(n_items, min_ratings) ==
    /\ result' = Call("get_popular_items",
                      [n_items |-> n_items, min_ratings |-> min_ratings],
                      get_popular_items(Self, n_items, min_ratings))
    /\ UNCHANGED <<instance, file>>

\* a prediction that drops the factor matrices once it has answered
PredictRatingForgets(user_id, item_id) ==
    /\ result' = Call("predict_rating",
                      [user_id |-> user_id, item_id |-> item_id],
                      predict_rating(Self, user_id, item_id))
    /\ user_factors' = Absent
    /\ UNCHANGED <<model, user_item_matrix, item_factors, ratings_df, file>>

PredictRating(user_id, item_id) ==
    /\ result' = Call("predict_rating",
                      [user_id |-> user_id, item_id |-> item_id],
                      predict_rating(Self, user_id, item_id))
    /\ UNCHANGED <<instance, file>>

\* statistics that are computed after the rating list has been released
GetModelStatsReleasing ==
    /\ result' = Call("get_model_stats", None, get_model_stats(Self))
    /\ ratings_df' = None
    /\ UNCHANGED <<model, user_item_matrix, user_factors, item_factors, file>>

GetModelStats ==
    /\ result' = Call("get_model_stats", None, get_model_stats(Self))
    /\ UNCHANGED <<instance, file>>

Next ==
    \/ \E df \in RatingLists : PrepareData(df)
    \/ \E algorithm \in Algorithms, fit \in FitOutcomes :
           TrainModel(algorithm, fit)
    \/ LoadModel
    \/ \E user_id \in UserIds, n \in Counts, exclude_rated \in BOOLEAN :
           GetUserRecommendations(user_id, n, exclude_rated)
    \/ \E item_id \in ItemIds, n \in Counts :
           GetItemRecommendations(item_id, n)
    \/ \E n \in Counts, min_ratings \in MinRatingsArgs :
           GetPopularItems(n, min_ratings)
    \/ \E user_id \in UserIds, item_id \in ItemIds :
           PredictRating(user_id, item_id)
    \/ GetModelStats

\* One run of the application that serves queries and retrains; the model
\* file is the one Init found.
Spec == Init /\ [][Next]_vars

(***************************************************************************)
(* The popularity ranking on its own: data is prepared, again and again,   *)
(* and the popular items are asked for with every threshold from 0 on.     *)
(***************************************************************************)
RankingMinRatings == {0, 1, 2, DefaultMinRatings}

RankingInit ==
    /\ model = NewService.model
    /\ user_item_matrix = NewService.user_item_matrix
    /\ user_factors = NewService.user_factors
    /\ item_factors = NewService.item_factors
    /\ ratings_df = NewService.ratings_df
    /\ file = Missing
    /\ result = Call("__init__", None, None)

RankingNext ==
    \/ \E df \in RankingLists : PrepareData(df)
    \/ \E n \in Counts, min_ratings \in RankingMinRatings :
           GetPopularItems(n, min_ratings)

RankingSpec == RankingInit /\ [][RankingNext]_vars

(***************************************************************************)
(* The life of one instance and of the file at model_path: the instance    *)
(* starts fresh, next to no file, to one that is no pickle or to a pickle   *)
(* without a model; data is prepared (also with a pair rated twice, with   *)
(* ratings outside 1..5, with no rating at all, with a single rating), the *)
(* model trained, saved and loaded in any order, and one query of each     *)
(* kind is made in between.                                                *)
(***************************************************************************)
\* one user and one item: a matrix of another shape than the others
SingleRating == << Rating("u1", "A", 3) >>

LifecycleLists ==
    {ExampleRatings, OutOfRangeRatings, DuplicateRatings, EmptyRatings,
     SingleRating}

\* the factorization a training run of LifecycleSpec returns: the exact one
LifecycleFit == <<Rat(1, 2), Rat(2, 1)>>

LifecycleInit ==
    /\ model = NewService.model
    /\ user_item_matrix = NewService.user_item_matrix
    /\ user_factors = NewService.user_factors
    /\ item_factors = NewService.item_factors
    /\ ratings_df = NewService.ratings_df
    /\ file \in {Missing, Corrupt, Incomplete}
    /\ result = Call("__init__", None, None)

LifecycleNext ==
    \/ \E df \in LifecycleLists : PrepareData(df)
    \/ \E algorithm \in Algorithms : TrainModel(algorithm, LifecycleFit)
    \/ SaveModel
    \/ LoadModel
    \/ GetUserRecommendations("u1", MaxCount, TRUE)
    \/ GetItemRecommendations("A", MaxCount)
    \/ GetPopularItems(MaxCount, 1)
    \/ PredictRating("u1", "A")
    \/ GetModelStats

LifecycleSpec == LifecycleInit /\ [][LifecycleNext]_vars

(***************************************************************************)
(* Vocabulary of the properties.  The properties restate what a call must  *)
(* return from the fields alone, with the arithmetic written out.          *)
(***************************************************************************)
Users == SeqToSet(user_item_matrix.index)

Items == SeqToSet(user_item_matrix.columns)

\* the matrix cell of a user and an item of the matrix
Cell(u, i) ==
    user_item_matrix.values[IndexOf(user_item_matrix.index, u)]
                           [IndexOf(user_item_matrix.columns, i)]

\* the instance holds a model and factor matrices of the shape of its rating
\* matrix, as after a successful train_model or load_model of a saved one
FactorsFit ==
    /\ model # None
    /\ user_item_matrix # None
    /\ user_factors # Absent /\ user_factors # None
    /\ item_factors # Absent /\ item_factors # None
    /\ Len(user_factors.array) = Len(user_item_matrix.index)
    /\ Len(item_factors.array[1]) = Len(user_item_matrix.columns)

\* sum over k of user_factors[u, k] * item_factors[k, i], as a rational
FactorProduct(u, i) ==
    LET W == user_factors.array[IndexOf(user_item_matrix.index, u)]
        H == item_factors.array
        c == IndexOf(user_item_matrix.columns, i)
        part[k \in 0..Len(W)] ==
            IF k = 0 THEN <<0, 1>>
            ELSE LET t == <<W[k][1] * H[k][c][1], W[k][2] * H[k][c][2]>>
                 IN  Rat(part[k - 1][1] * t[2] + t[1] * part[k - 1][2],
                         part[k - 1][2] * t[2])
    IN  part[Len(W)]

\* x brought into [1, 5]
Into15(x) == IF RLt(x, <<1, 1>>) THEN <<1, 1>>
             ELSE IF RLt(<<5, 1>>, x) THEN <<5, 1>> ELSE x

\* the mean of the non-zero numbers of a set of cells given as a function
\* from a finite set; <<3, 1>> when there is none
RECURSIVE SumOver(_, _)
SumOver(f, S) ==
    IF S = {} THEN 0
    ELSE LET x == CHOOSE y \in S : TRUE IN f[x] + SumOver(f, S \ {x})

MeanNonZeroOr3(f) ==
    LET nz == {x \in DOMAIN f : f[x] # 0}
    IN  IF nz = {} THEN <<3, 1>> ELSE Rat(SumOver(f, nz), Cardinality(nz))

IsCall(op) == result.op = op

(***************************************************************************)
(* C1.  Whenever predict_rating returns a result that is not an error, for *)
(* any user_id and item_id, known or not, its predicted_rating lies in     *)
(* [1.0, 5.0].                                                             *)
(***************************************************************************)
C1_PredictedRatingInRange ==
    (IsCall("predict_rating") /\ ~IsError(result.ret)) =>
        /\ result.ret.predicted_rating[1] >= result.ret.predicted_rating[2]
        /\ result.ret.predicted_rating[1] <= 5 * result.ret.predicted_rating[2]
        /\ result.ret.predicted_rating[2] > 0

\* predict_rating has answered 5.0 for a known pair whose factor product is
\* above 5
C1_Witness ==
    /\ IsCall("predict_rating")
    /\ ~IsError(result.ret)
    /\ FactorsFit
    /\ result.args.user_id \in Users
    /\ result.args.item_id \in Items
    /\ RLt(<<5, 1>>, FactorProduct(result.args.user_id, result.args.item_id))
    /\ result.ret.predicted_rating = <<5, 1>>

(***************************************************************************)
(* C2.  On an instance that holds a trained or restored model (FactorsFit),*)
(* predict_rating returns was_impossible = false exactly when user_id is a *)
(* row and item_id a column of the rating matrix, and then the predicted   *)
(* rating is the product of the user's factor row and the item's factor    *)
(* column brought into [1, 5].                                             *)
(***************************************************************************)
C2_FallbackIffUnknown ==
    (IsCall("predict_rating") /\ FactorsFit) =>
        LET known == /\ result.args.user_id \in Users
                     /\ result.args.item_id \in Items
        IN  /\ ~IsError(result.ret)
            /\ (result.ret.was_impossible = FALSE) <=> known
            /\ known =>
                 result.ret.predicted_rating =
                    Into15(FactorProduct(result.args.user_id,
                                         result.args.item_id))

\* predict_rating has answered from the factors, on a restored model, with a
\* rating strictly inside (1, 5)
C2_Witness ==
    /\ IsCall("predict_rating")
    /\ FactorsFit
    /\ ~IsError(result.ret)
    /\ result.ret.was_impossible = FALSE
    /\ RLt(<<1, 1>>, result.ret.predicted_rating)
    /\ RLt(result.ret.predicted_rating, <<5, 1>>)
    /\ file # Missing
    /\ user_item_matrix = file.user_item_matrix
    /\ user_factors = file.user_factors

(***************************************************************************)
(* C3.  On an instance with a model and a rating matrix: when exactly one  *)
(* of user_id / item_id is unknown, predict_rating returns the mean of the *)
(* known side's non-zero ratings (the item's column for an unknown user,   *)
(* the user's row for an unknown item), or 3.0 when that side has none,    *)
(* brought into [1, 5], with was_impossible = true; when both are unknown  *)
(* it returns 3.0.                                                         *)
(* As amended, the example reads: on the ratings {(u1,A,5), (u1,B,1),      *)
(* (u2,A,4), (u2,B,2), (u2,C,5)}, trained, predict(u1, C) is no fallback   *)
(* (C is a column, u2 rated it): was_impossible = false and the rating is  *)
(* the factor product; predict(u1, X) for an item X of no rating returns   *)
(* 3.0, the mean of u1's ratings, with was_impossible = true.              *)
(***************************************************************************)
C3_General ==
    (IsCall("predict_rating") /\ model # None /\ user_item_matrix # None) =>
        LET u == result.args.user_id
            i == result.args.item_id
            column == [w \in Users |-> Cell(w, i)]
            row    == [j \in Items |-> Cell(u, j)]
        IN  /\ (u \notin Users /\ i \in Items) =>
                 /\ ~IsError(result.ret)
                 /\ result.ret.was_impossible = TRUE
                 /\ result.ret.predicted_rating =
                        Into15(MeanNonZeroOr3(column))
            /\ (u \in Users /\ i \notin Items) =>
                 /\ ~IsError(result.ret)
                 /\ result.ret.was_impossible = TRUE
                 /\ result.ret.predicted_rating = Into15(MeanNonZeroOr3(row))
            /\ (u \notin Users /\ i \notin Items) =>
                 /\ ~IsError(result.ret)
                 /\ result.ret.was_impossible = TRUE
                 /\ result.ret.predicted_rating = <<3, 1>>

\* the instance was trained on the example ratings
OnExample ==
    /\ FactorsFit
    /\ user_item_matrix = pivot(ExampleRatings)

C3_FallbackMeans ==
    /\ C3_General
    /\ (IsCall("predict_rating") /\ OnExample) =>
         /\ (result.args.user_id = "u1" /\ result.args.item_id = "C") =>
              /\ ~IsError(result.ret)
              /\ result.ret.was_impossible = FALSE
              /\ result.ret.predicted_rating = Into15(FactorProduct("u1", "C"))
         /\ (result.args.user_id = "u1" /\ result.args.item_id = "X") =>
              /\ ~IsError(result.ret)
              /\ result.ret.was_impossible = TRUE
              /\ result.ret.predicted_rating = <<3, 1>>

\* the claim as written: predict(u1, C) on the example returns 3.0 as a
\* fallback
C3_AsWritten ==
    /\ C3_General
    /\ (IsCall("predict_rating") /\ OnExample
            /\ result.args.user_id = "u1" /\ result.args.item_id = "C") =>
         /\ ~IsError(result.ret)
         /\ result.ret.was_impossible = TRUE
         /\ result.ret.predicted_rating = <<3, 1>>

\* predict_rating has answered for an unknown user and a known item with the
\* mean of the item's ratings, where the column also holds an unset cell
C3_Witness ==
    /\ IsCall("predict_rating")
    /\ ~IsError(result.ret)
    /\ user_item_matrix # None
    /\ result.args.user_id \notin Users
    /\ result.args.item_id \in Items
    /\ result.ret.was_impossible = TRUE
    /\ result.ret.predicted_rating # <<3, 1>>
    /\ \E w \in Users : Cell(w, result.args.item_id) = 0
    /\ \E w \in Users : Cell(w, result.args.item_id) > 0

\* get_user_recommendations has answered, without error, for a user_id that
\* is a row of the rating matrix
RecommendedKnown ==
    /\ IsCall("get_user_recommendations")
    /\ user_item_matrix # None
    /\ result.args.user_id \in Users
    /\ ~IsError(result.ret)

Recs == result.ret.recommendations

ColumnIndex(i) == IndexOf(user_item_matrix.columns, i)

\* the items that may be recommended to the user of the call
Candidates ==
    {i \in Items : result.args.exclude_rated =>
                       Cell(result.args.user_id, i) = 0}

Least(a, b) == IF a < b THEN a ELSE b

(***************************************************************************)
(* C4.  On an instance with a model and a rating matrix,                   *)
(* get_user_recommendations for a user_id that is no row of the matrix     *)
(* returns exactly what get_popular_items returns for the same count and   *)
(* min_ratings = 5 (the default), whatever exclude_rated is, and that is   *)
(* no error.                                                               *)
(***************************************************************************)
C4_ColdStartIsPopular ==
    (/\ IsCall("get_user_recommendations")
     /\ model # None
     /\ user_item_matrix # None
     /\ result.args.user_id \notin Users) =>
        /\ ~IsError(result.ret)
        /\ result.ret =
              get_popular_items(Self, result.args.n_recommendations, 5)

\* an unknown user has been given two popular items, with exclude_rated on
C4_Witness ==
    /\ IsCall("get_user_recommendations")
    /\ model # None
    /\ user_item_matrix # None
    /\ result.args.user_id \notin Users
    /\ result.args.exclude_rated = TRUE
    /\ ~IsError(result.ret)
    /\ Len(result.ret.popular_items) = 2

C6_SortedAndTruncated ==
    RecommendedKnown =>
        /\ Len(Recs) = Least(result.args.n_recommendations,
                             result.ret.total_available)
        /\ \A k, l \in DOMAIN Recs : k < l =>
             /\ ~RLt(Recs[k].predicted_rating, Recs[l].predicted_rating)
             /\ Recs[k].predicted_rating = Recs[l].predicted_rating =>
                  ColumnIndex(Recs[k].product_id)
                      < ColumnIndex(Recs[l].product_id)
        /\ FactorsFit =>
             /\ result.ret.total_available = Cardinality(Candidates)
             /\ \A k \in DOMAIN Recs :
                  /\ Recs[k].product_id \in Candidates
                  /\ Recs[k].predicted_rating =
                        FactorProduct(result.args.user_id, Recs[k].product_id)
             /\ \A j \in Candidates :
                  j \notin {Recs[k].product_id : k \in DOMAIN Recs} =>
                     \A k \in DOMAIN Recs :
                        LET pj == FactorProduct(result.args.user_id, j)
                        IN  /\ ~RLt(Recs[k].predicted_rating, pj)
                            /\ Recs[k].predicted_rating = pj =>
                                 ColumnIndex(Recs[k].product_id)
                                     < ColumnIndex(j)

\* two items of equal, non-zero score have been returned, and a third
\* candidate of lower score was cut off by the count
C6_Witness ==
    /\ RecommendedKnown
    /\ FactorsFit
    /\ Len(Recs) = 2
    /\ result.ret.total_available = 3
    /\ Recs[1].predicted_rating = Recs[2].predicted_rating
    /\ Recs[1].predicted_rating # <<0, 1>>

(***************************************************************************)
(* C7.  Every item get_user_recommendations returns for a user_id that is  *)
(* a row of the matrix carries confidence = 1 - |p - round(p)| for its     *)
(* predicted score p, the formula predict_rating applies to its rating.    *)
(* The code computes min(p / 5, 1) instead.                                *)
(***************************************************************************)
C7_ConfidenceByRounding ==
    RecommendedKnown =>
        \A k \in DOMAIN Recs :
            Recs[k].confidence =
                RSub(<<1, 1>>,
                     RAbs(RSub(Recs[k].predicted_rating,
                               <<PyRound(Recs[k].predicted_rating), 1>>)))

(***************************************************************************)
(* C8.  On an instance with a trained model, the predicted score of every  *)
(* item get_user_recommendations returns for a user_id that is a row of    *)
(* the matrix lies in [1, 5].  The code returns the factor product as it   *)
(* is.                                                                     *)
(***************************************************************************)
C8_ScoreInRange ==
    (RecommendedKnown /\ FactorsFit) =>
        \A k \in DOMAIN Recs :
            /\ ~RLt(Recs[k].predicted_rating, <<1, 1>>)
            /\ ~RLt(<<5, 1>>, Recs[k].predicted_rating)

(***************************************************************************)
(* C9.  A call of get_item_recommendations with an item_id that is no      *)
(* column of the rating matrix returns the error "Item not found in        *)
(* training data", never a successful result, and changes neither a field  *)
(* of the instance nor the model file.                                     *)
(***************************************************************************)
C9_UnknownItemStep ==
    (/\ result'.op = "get_item_recommendations"
     /\ user_item_matrix # None
     /\ result'.args.item_id \notin Items) =>
        /\ IsError(result'.ret)
        /\ result'.ret = Err("Item not found in training data")
        /\ UNCHANGED <<instance, file>>

SimilarKnown ==
    /\ IsCall("get_item_recommendations")
    /\ user_item_matrix # None
    /\ result.args.item_id \in Items
    /\ ~IsError(result.ret)

Similar == result.ret.similar_items

\* sum over the users of the product of two items' cells
ColumnProduct(i, j) ==
    SumOver([u \in Users |-> Cell(u, i) * Cell(u, j)], Users)

\* the cosine x of two items' columns as the rational x * |x|; 0 when a
\* column has no non-zero cell
CosineSigned(i, j) ==
    LET d  == ColumnProduct(i, j)
        nn == ColumnProduct(i, i) * ColumnProduct(j, j)
    IN  IF nn = 0 THEN <<0, 1>>
        ELSE Rat(IF d < 0 THEN 0 - d * d ELSE d * d, nn)

PopularAnswered ==
    /\ IsCall("get_popular_items")
    /\ user_item_matrix # None

Popular == result.ret.popular_items

\* the number of non-zero cells in the column of an item
NonZeroCount(i) == Cardinality({u \in Users : Cell(u, i) # 0})

(***************************************************************************)
(* C11.  For every rating matrix, every count N > 0 and every threshold    *)
(* M >= 0, get_popular_items(N, M) succeeds and returns at most N items,   *)
(* each an item of the matrix listed once, none with fewer than M non-zero *)
(* ratings.  On the ratings {(u1,A,5), (u1,B,1), (u2,A,4), (u2,B,2),       *)
(* (u2,C,5)} with N = 2 and M = 2 it returns A and B, in this order, and   *)
(* not C.                                                                  *)
(***************************************************************************)
C11_PopularThreshold ==
    PopularAnswered =>
        /\ ~IsError(result.ret)
        /\ Len(Popular) <= result.args.n_items
        /\ \A k \in DOMAIN Popular :
             /\ Popular[k].product_id \in Items
             /\ NonZeroCount(Popular[k].product_id) >= result.args.min_ratings
        /\ \A k, l \in DOMAIN Popular :
             k # l => Popular[k].product_id # Popular[l].product_id
        /\ (/\ user_item_matrix = pivot(ExampleRatings)
            /\ result.args.n_items = 2
            /\ result.args.min_ratings = 2) =>
               /\ Len(Popular) = 2
               /\ Popular[1].product_id = "A"
               /\ Popular[2].product_id = "B"

\* the popular items of the example have been asked for with N = 2, M = 2,
\* and item C, rated once, has stayed out
C11_Witness ==
    /\ PopularAnswered
    /\ user_item_matrix = pivot(ExampleRatings)
    /\ result.args.n_items = 2
    /\ result.args.min_ratings = 2
    /\ Len(Popular) = 2
    /\ NonZeroCount("C") = 1
    /\ \A k \in DOMAIN Popular : Popular[k].product_id # "C"

\* average of the item's non-zero ratings x ln(number of them + 1); NaN for
\* an item without a non-zero rating
WeightedScore(i) ==
    LET column == [u \in Users |-> Cell(u, i)]
        nz     == {u \in Users : column[u] # 0}
    IN  IF nz = {} THEN <<0, 0>>
        ELSE Rat(SumOver(column, nz) * LnMilli[Cardinality(nz) + 1],
                 Cardinality(nz) * 1000)

(***************************************************************************)
(* C12.  get_popular_items returns the qualifying items (those with at     *)
(* least min_ratings non-zero ratings) in descending order of              *)
(* weighted_score = average of the item's non-zero ratings x ln(number of  *)
(* non-zero ratings + 1), and no qualifying item left out has a strictly   *)
(* higher weighted_score than a returned one.  The code breaks this when   *)
(* an item without a rating above 0 qualifies (min_ratings = 0): its score *)
(* is NaN, and the sort leaves the list as it was.                         *)
(***************************************************************************)
C12_DescendingByWeightedScore ==
    (PopularAnswered /\ ~IsError(result.ret)) =>
        LET listed == {Popular[k].product_id : k \in DOMAIN Popular}
        IN  /\ \A k, l \in DOMAIN Popular : k < l =>
                 ~RLt(Popular[k].weighted_score, Popular[l].weighted_score)
            /\ \A j \in Items \ listed :
                 NonZeroCount(j) >= result.args.min_ratings =>
                    \A k \in DOMAIN Popular :
                       ~RLt(Popular[k].weighted_score, WeightedScore(j))

\* the operations that need prepared data: train_model and the four queries
NeedPrepared ==
    {"train_model", "get_user_recommendations", "get_item_recommendations",
     "get_popular_items", "predict_rating"}

(***************************************************************************)
(* C13.  On an instance that holds neither a rating matrix nor a model (no *)
(* prepare_data has succeeded, nothing has been restored), train_model and *)
(* each of get_user_recommendations, get_item_recommendations,             *)
(* get_popular_items and predict_rating return an error that tells the     *)
(* caller that data or model is missing, and the call changes no field of  *)
(* the instance nor the model file.                                        *)
(***************************************************************************)
C13_NotPreparedStep ==
    (/\ user_item_matrix = None
     /\ model = None
     /\ result'.op \in NeedPrepared) =>
        /\ IsError(result'.ret)
        /\ result'.ret \in {Err("Data not prepared"), Err("Model not trained"),
                            Err("User-item matrix not available")}
        /\ UNCHANGED <<instance, file>>

C13_NotPrepared == [][C13_NotPreparedStep]_vars

\* get_popular_items has been refused on an instance without matrix and model
C13_Witness ==
    /\ IsCall("get_popular_items")
    /\ user_item_matrix = None
    /\ model = None
    /\ IsError(result.ret)

\* the answers of the four queries on the instance self, for every argument
\* the callers pass
Answers(self) ==
    [recommend |-> [u \in UserIds, n \in Counts, e \in BOOLEAN |->
                       get_user_recommendations(self, u, n, e)],
     similar   |-> [i \in ItemIds, n \in Counts |->
                       get_item_recommendations(self, i, n)],
     popular   |-> [n \in Counts, m \in MinRatingsArgs |->
                       get_popular_items(self, n, m)],
     predict   |-> [u \in UserIds, i \in ItemIds |->
                       predict_rating(self, u, i)]]

(***************************************************************************)
(* C14.  When save_model succeeds on a trained instance (its model is a    *)
(* fitted one), load_model of the saved file into a fresh instance         *)
(* succeeds, and each of the four queries then returns, for every          *)
(* argument, what it returns on the saving instance.                       *)
(***************************************************************************)
C14_SaveStep ==
    (/\ result'.op = "save_model"
     /\ ~IsError(result'.ret)
     /\ model.fitted) =>
        LET restored == load_model(NewService, file')
        IN  /\ ~IsError(restored.ret)
            /\ Answers(restored.self) = Answers(Self)

C14_SaveRestoreSameAnswers == [][C14_SaveStep]_vars

\* a model trained on the example has been saved, and the file holds it
C14_Witness ==
    /\ IsCall("save_model")
    /\ ~IsError(result.ret)
    /\ model.fitted
    /\ FactorsFit
    /\ user_item_matrix = pivot(ExampleRatings)
    /\ file \notin {Missing, Corrupt, Incomplete}
    /\ file.user_item_matrix = user_item_matrix

\* the query the call is has a known user or item for each identifier it takes
KnownArguments(call) ==
    /\ user_item_matrix # None
    /\ call.op \in {"get_user_recommendations", "predict_rating"} =>
          call.args.user_id \in Users
    /\ call.op \in {"get_item_recommendations", "predict_rating"} =>
          call.args.item_id \in Items

Queries ==
    {"get_user_recommendations", "get_item_recommendations",
     "get_popular_items", "predict_rating"}

(***************************************************************************)
(* C15.  After a load_model that reports success, a query                  *)
(* (get_user_recommendations, get_item_recommendations, get_popular_items, *)
(* predict_rating) made next, with known users and items, returns no       *)
(* error.  The code loads a bundle that save_model wrote after a failed    *)
(* train_model; its factor matrices are None, and the queries that use     *)
(* them fail.                                                              *)
(***************************************************************************)
C15_QueryAfterLoadStep ==
    (/\ result.op = "load_model"
     /\ ~IsError(result.ret)
     /\ result'.op \in Queries
     /\ KnownArguments(result')) =>
        ~IsError(result'.ret)

C15_QueriesAfterRestore == [][C15_QueryAfterLoadStep]_vars

\* what a caller can branch on without reading the text of a message: the
\* keys of the dict the call returns
OutcomeKind(ret) == DOMAIN ret

(***************************************************************************)
(* C16.  load_model of a file that does not exist fails with an outcome of *)
(* a kind of its own, which the caller can tell from the outcome of        *)
(* loading a file that exists and is no pickle.  The code returns          *)
(* {"error": str(e)} for both.                                             *)
(***************************************************************************)
C16_DistinctFailureKinds ==
    (IsCall("load_model") /\ file = Missing) =>
        /\ IsError(result.ret)
        /\ OutcomeKind(result.ret) # OutcomeKind(load_model(Self, Corrupt).ret)

\* the rows of the frame the call of prepare_data was given
Given(call) == call.args.ratings_df.rows

RowSet(rows) == {rows[k] : k \in DOMAIN rows}

\* the matrix X holds the users, the items and the ratings of the rows, and
\* nothing else: a cell holds a rating the rows give its pair, 0 without one
HoldsExactly(X, rows) ==
    /\ X # None
    /\ SeqToSet(X.index) = {r.user_id : r \in RowSet(rows)}
    /\ SeqToSet(X.columns) = {r.product_id : r \in RowSet(rows)}
    /\ Len(X.index) = Cardinality(SeqToSet(X.index))
    /\ Len(X.columns) = Cardinality(SeqToSet(X.columns))
    /\ \A a \in DOMAIN X.index, b \in DOMAIN X.columns :
          LET given == {r.rating : r \in
                           {q \in RowSet(rows) :
                               /\ q.user_id = X.index[a]
                               /\ q.product_id = X.columns[b]}}
          IN  IF given = {} THEN X.values[a][b] = 0
              ELSE X.values[a][b] \in given

(***************************************************************************)
(* C17.  prepare_data replaces the rating matrix wholesale: after a call   *)
(* prepare_data(R2) on an instance that holds the matrix of an earlier     *)
(* prepare_data(R1), the matrix holds exactly the users, the items and the *)
(* ratings of R2 and nothing of R1.  The code raises when R2 rates a pair  *)
(* twice and keeps the matrix of R1, next to the rating list R2.           *)
(***************************************************************************)
C17_PrepareStep ==
    (result'.op = "prepare_data" /\ user_item_matrix # None) =>
        HoldsExactly(user_item_matrix', Given(result'))

C17_PrepareReplaces == [][C17_PrepareStep]_vars

(***************************************************************************)
(* C18.  After a prepare_data that succeeds, every non-zero cell of the    *)
(* rating matrix is an integer from 1 to 5: ratings outside [1, 5] are     *)
(* rejected or ignored.  The code puts every rating into the matrix.       *)
(***************************************************************************)
C18_CellsInRange ==
    (IsCall("prepare_data") /\ result.ret = None) =>
        \A u \in Users, i \in Items :
            Cell(u, i) # 0 => Cell(u, i) \in 1..5

\* the last rating the rows give the pair
LastRating(rows, u, i) ==
    LET at == {k \in DOMAIN rows :
                  rows[k].user_id = u /\ rows[k].product_id = i}
    IN  rows[CHOOSE k \in at : \A l \in at : l <= k].rating

(***************************************************************************)
(* C19.  When the list given to prepare_data rates a (user, item) pair     *)
(* more than once, the call succeeds and the cell of every pair holds the  *)
(* rating that comes last in the list.  The code raises on such a list.    *)
(***************************************************************************)
C19_PrepareStep ==
    (/\ result'.op = "prepare_data"
     /\ \E k, l \in DOMAIN Given(result') :
           /\ k < l
           /\ Given(result')[k].user_id = Given(result')[l].user_id
           /\ Given(result')[k].product_id = Given(result')[l].product_id) =>
        /\ result'.ret = None
        /\ user_item_matrix' # None
        /\ \A r \in RowSet(Given(result')) :
              /\ r.user_id \in SeqToSet(user_item_matrix'.index)
              /\ r.product_id \in SeqToSet(user_item_matrix'.columns)
              /\ user_item_matrix'.values
                    [IndexOf(user_item_matrix'.index, r.user_id)]
                    [IndexOf(user_item_matrix'.columns, r.product_id)]
                    = LastRating(Given(result'), r.user_id, r.product_id)

C19_LastRatingWins == [][C19_PrepareStep]_vars

(***************************************************************************)
(* C20.  A train_model that succeeds returns a report with n_users the     *)
(* number of rows of the matrix, n_items the number of its columns,        *)
(* n_ratings the number of its non-zero cells and                          *)
(* sparsity = 1 - n_ratings / (n_users * n_items).                         *)
(***************************************************************************)
C20_TrainingReport ==
    (IsCall("train_model") /\ ~IsError(result.ret)) =>
        LET nonzero == Cardinality({c \in Users \X Items :
                                      Cell(c[1], c[2]) # 0})
            cells   == Cardinality(Users) * Cardinality(Items)
        IN  /\ result.ret.n_users = Cardinality(Users)
            /\ result.ret.n_items = Cardinality(Items)
            /\ result.ret.n_ratings = nonzero
            /\ cells > 0
            /\ result.ret.sparsity = Rat(cells - nonzero, cells)

\* a training has reported on a matrix that has an unset cell and set ones
C20_Witness ==
    /\ IsCall("train_model")
    /\ ~IsError(result.ret)
    /\ result.ret.n_ratings > 0
    /\ result.ret.n_ratings < result.ret.n_users * result.ret.n_items
    /\ FactorsFit

(***************************************************************************)
(* C21.  On an instance that holds a model and a rating matrix,            *)
(* get_user_recommendations for a user_id that is no row of the matrix and *)
(* predict_rating for a user_id or item_id that is not in the matrix never *)
(* return an error: the first returns the popular items, the second a      *)
(* result marked as a fallback.  With factor matrices of the shape of the  *)
(* rating matrix the two calls return no error for known identifiers       *)
(* either.                                                                 *)
(***************************************************************************)
C21_FallbackNotError ==
    /\ ( /\ IsCall("get_user_recommendations")
         /\ model # None /\ user_item_matrix # None
         /\ result.args.user_id \notin Users \/ FactorsFit ) =>
           /\ ~IsError(result.ret)
           /\ result.args.user_id \notin Users =>
                  "popular_items" \in DOMAIN result.ret
           /\ result.args.user_id \in Users =>
                  "recommendations" \in DOMAIN result.ret
    /\ ( /\ IsCall("predict_rating")
         /\ model # None /\ user_item_matrix # None
         /\ \/ result.args.user_id \notin Users
            \/ result.args.item_id \notin Items
            \/ FactorsFit ) =>
           /\ ~IsError(result.ret)
           /\ "predicted_rating" \in DOMAIN result.ret
           /\ result.ret.was_impossible =
                  ( \/ result.args.user_id \notin Users
                    \/ result.args.item_id \notin Items )

\* predict_rating has answered for a user and an item that are both unknown
\* to a trained instance
C21_Witness ==
    /\ IsCall("predict_rating")
    /\ FactorsFit
    /\ Users # {}
    /\ result.args.user_id \notin Users
    /\ result.args.item_id \notin Items
    /\ ~IsError(result.ret)
    /\ result.ret.was_impossible

(***************************************************************************)
(* C22.  The answer predict_rating gives for a user_id and an item_id      *)
(* depends on the instance fields alone and no read query alters it: after *)
(* a predict_rating call the instance still gives the answer it returned,  *)
(* and across every step that is a read query (get_user_recommendations,   *)
(* get_item_recommendations, get_popular_items, predict_rating) the answer *)
(* to every pair of arguments, predicted_rating, was_impossible and        *)
(* confidence included, stays the same.  So two calls with the same        *)
(* arguments, with any number of read queries in between, return the same. *)
(***************************************************************************)
ReadQueries ==
    {"get_user_recommendations", "get_item_recommendations",
     "get_popular_items", "predict_rating"}

\* the instance a step leaves
SelfNext ==
    [model            |-> model',
     user_item_matrix |-> user_item_matrix',
     user_factors     |-> user_factors',
     item_factors     |-> item_factors',
     ratings_df       |-> ratings_df']

C22_Step ==
    /\ result'.op = "predict_rating" =>
           result'.ret = predict_rating(SelfNext, result'.args.user_id,
                                        result'.args.item_id)
    /\ result'.op \in ReadQueries =>
           \A u \in UserIds, i \in ItemIds :
               predict_rating(SelfNext, u, i) = predict_rating(Self, u, i)
    /\ ( /\ result.op = "predict_rating"
         /\ result'.op = "predict_rating"
         /\ result'.args = result.args ) => result'.ret = result.ret

C22_PredictRepeats == [][C22_Step]_vars

\* a prediction from the factor matrices has been returned by a trained
\* instance, which gives the same one again
C22_Witness ==
    /\ IsCall("predict_rating")
    /\ FactorsFit
    /\ ~IsError(result.ret)
    /\ ~result.ret.was_impossible
    /\ result.ret = predict_rating(Self, result.args.user_id,
                                   result.args.item_id)

(***************************************************************************)
(* C23.  A step that is one of the four read queries or get_model_stats    *)
(* leaves model, user_item_matrix, user_factors, item_factors and          *)
(* ratings_df as they were and leaves the model file as it was, whether    *)
(* the call returns a result or an error; a step that changes one of the   *)
(* five fields is a prepare_data, a train_model or a load_model.           *)
(***************************************************************************)
C23_Step ==
    /\ result'.op \in ReadQueries \cup {"get_model_stats"} =>
           /\ SelfNext = Self
           /\ file' = file
    /\ SelfNext # Self =>
           result'.op \in {"prepare_data", "train_model", "load_model"}

C23_QueriesChangeNothing == [][C23_Step]_vars

\* a query has failed on an instance that holds a rating matrix and a rating
\* list but no model
C23_Witness ==
    /\ result.op \in ReadQueries \cup {"get_model_stats"}
    /\ IsError(result.ret)
    /\ model = None
    /\ user_item_matrix # None
    /\ ratings_df # None

(***************************************************************************)
(* C24.  While the steps of a training request (prepare_data, train_model, *)
(* save_model) interleave with read queries, no read query is answered by  *)
(* an instance that holds a model, a rating matrix and factor matrices     *)
(* that were not computed from that matrix: at every read query the        *)
(* factor matrices have the shape of the matrix and their product is the   *)
(* matrix scaled by the accuracy of one training run.                      *)
(***************************************************************************)
\* the products g * h of the factorizations a training run may return
FitProducts == {<<1, 1>>, <<3, 2>>}

\* the factor matrices are a factorization of the rating matrix held
FactorsOfMatrix ==
    /\ FactorsFit
    /\ \E q \in FitProducts :
           \A u \in Users, i \in Items :
               LET p == FactorProduct(u, i)
               IN  p[1] * q[2] = q[1] * Cell(u, i) * p[2]

C24_NoPartialModel ==
    ( /\ result.op \in ReadQueries
      /\ model # None
      /\ user_item_matrix # None
      /\ user_factors # Absent /\ user_factors # None
      /\ item_factors # Absent /\ item_factors # None ) => FactorsOfMatrix

(***************************************************************************)
(* The sibling class RecommendationService.  Its module imports pandas,    *)
(* numpy and sklearn only: Reader, Dataset, SVD and KNNBasic are names it  *)
(* never binds, so the first statement of prepare_data raises NameError    *)
(* and so would the construction of the estimator.  What a fitted Surprise *)
(* estimator would answer is outside the repository.                       *)
(***************************************************************************)
NewRecommendationService ==
    [model            |-> None,
     trainset         |-> None,
     testset          |-> None,
     user_item_matrix |-> None]

\* an answer computed with a Surprise estimator
BySurprise == [surprise |-> TRUE]

\* reader = Reader(rating_scale=(1, 5)) raises before any field is assigned
RecommendationService_prepare_data(self, df) ==
    [self |-> self, ret |-> Raised("NameError")]

RecommendationService_train_model(self, algorithm) ==
    IF self.trainset = None
    THEN [self |-> self, ret |-> Err("Data not prepared")]
    ELSE IF algorithm \in {"SVD", "KNNBasic"}
    THEN [self |-> self, ret |-> Err("NameError")]
    ELSE [self |-> self, ret |-> Err("Unsupported algorithm")]

RecommendationService_get_user_recommendations(self, user_id, n_recommendations, exclude_rated) ==
    IF self.model = None THEN Err("Model not trained") ELSE BySurprise

RecommendationService_get_item_recommendations(self, item_id, n_recommendations) ==
    IF self.model = None THEN Err("Model not trained") ELSE BySurprise

RecommendationService_get_popular_items(self, n_items, min_ratings) ==
    get_popular_items(self, n_items, min_ratings)

RecommendationService_predict_rating(self, user_id, item_id) ==
    IF self.model = None THEN Err("Model not trained") ELSE BySurprise

(***************************************************************************)
(* C26.  The same call on RecommendationService and on                     *)
(* SimpleRecommendationService, after the same prepare_data and            *)
(* train_model calls on the same ratings, has the same kind of outcome:    *)
(* both return a result or both fail (an error value or a raised           *)
(* exception); so for prepare_data, for get_user_recommendations with a    *)
(* user_id that is no row of the matrix and for get_item_recommendations   *)
(* with an item_id that is no column.                                      *)
(***************************************************************************)
Fails(ret) == "error" \in DOMAIN ret \/ "raised" \in DOMAIN ret

\* what the sibling returns for the call made last.  Its prepare_data and
\* train_model assign no field, so after any calls of them the instance is
\* the one __init__ made.
RecommendationServiceReturns ==
    LET other == NewRecommendationService
        a     == result.args
    IN  CASE result.op = "prepare_data" ->
                 RecommendationService_prepare_data(other, a.ratings_df.rows).ret
          [] result.op = "train_model" ->
                 RecommendationService_train_model(other, a.algorithm).ret
          [] result.op = "get_user_recommendations" ->
                 RecommendationService_get_user_recommendations(
                     other, a.user_id, a.n_recommendations, a.exclude_rated)
          [] result.op = "get_item_recommendations" ->
                 RecommendationService_get_item_recommendations(
                     other, a.item_id, a.n_recommendations)
          [] result.op = "get_popular_items" ->
                 RecommendationService_get_popular_items(
                     other, a.n_items, a.min_ratings)
          [] result.op = "predict_rating" ->
                 RecommendationService_predict_rating(
                     other, a.user_id, a.item_id)

C26_SameKindOfOutcome ==
    result.op \in ReadQueries \cup {"prepare_data", "train_model"} =>
        Fails(RecommendationServiceReturns) = Fails(result.ret)

(***************************************************************************)
(* C25.  No query returns a NaN: every similarity_score and confidence     *)
(* get_item_recommendations returns, every average_rating and              *)
(* weighted_score get_popular_items returns (whatever min_ratings, 0       *)
(* included) and every predicted_rating and confidence predict_rating      *)
(* returns is a number, also for an item or a user without a rating above  *)
(* 0; the similarity of a pair with such an item is 0.                     *)
(***************************************************************************)
C25_NoNaN ==
    /\ (IsCall("get_popular_items") /\ ~IsError(result.ret)) =>
           \A k \in DOMAIN result.ret.popular_items :
               /\ result.ret.popular_items[k].average_rating[2] # 0
               /\ result.ret.popular_items[k].weighted_score[2] # 0
    /\ (IsCall("get_item_recommendations") /\ ~IsError(result.ret)) =>
           \A k \in DOMAIN result.ret.similar_items :
               LET e == result.ret.similar_items[k]
               IN  /\ e.similarity_score[2] # 0
                   /\ e.confidence[2] # 0
                   /\ ( \/ NonZeroCount(e.product_id) = 0
                        \/ NonZeroCount(result.args.item_id) = 0 ) =>
                          e.similarity_score[1] = 0
    /\ (IsCall("predict_rating") /\ ~IsError(result.ret)) =>
           /\ result.ret.predicted_rating[2] # 0
           /\ result.ret.confidence[2] # 0

(***************************************************************************)
(* C27.  In every state in which the model is set, whatever prepare_data,  *)
(* train_model, save_model and load_model calls led to it, the factor      *)
(* matrices belong to the rating matrix held: user_factors has one row per *)
(* row of the matrix, item_factors one column per column, and they are a   *)
(* factorization of that matrix.  Stated of the states in which the model  *)
(* is set and has been fitted.                                             *)
(***************************************************************************)
C27_FactorsBelongToMatrix ==
    (model # None /\ model.fitted) => FactorsOfMatrix

(***************************************************************************)
(* C28.  A train_model call that returns an error, for an unsupported      *)
(* algorithm or because the factorization raised on the prepared matrix,   *)
(* leaves model, user_factors and item_factors as they were before the     *)
(* call; so an instance whose model was None still has no model, and       *)
(* get_user_recommendations, predict_rating and save_model go on           *)
(* reporting that there is none.                                           *)
(***************************************************************************)
C28_Step ==
    (result'.op = "train_model" /\ IsError(result'.ret)) =>
        /\ model' = model
        /\ user_factors' = user_factors
        /\ item_factors' = item_factors
        /\ model = None =>
               /\ IsError(get_user_recommendations(SelfNext, "u1", 1, TRUE))
               /\ IsError(predict_rating(SelfNext, "u1", "A"))
               /\ IsError(save_model(SelfNext, file).ret)

C28_FailedTrainChangesNothing == [][C28_Step]_vars

(***************************************************************************)
(* C29.  A load_model call that returns an error (no file at the path, a   *)
(* file that is no pickle, or a pickle without the 'model' entry) leaves   *)
(* model, user_item_matrix, user_factors, item_factors and ratings_df as   *)
(* they were, so the instance answers every query as it did before.        *)
(***************************************************************************)
C29_Step ==
    (result'.op = "load_model" /\ IsError(result'.ret)) =>
        /\ model' = model
        /\ user_item_matrix' = user_item_matrix
        /\ user_factors' = user_factors
        /\ item_factors' = item_factors
        /\ ratings_df' = ratings_df
        /\ Answers(SelfNext) = Answers(Self)

C29_FailedLoadChangesNothing == [][C29_Step]_vars

\* a trained instance has tried to load a pickle without the 'model' entry
\* and still holds its model and factor matrices
C29_Witness ==
    /\ IsCall("load_model")
    /\ IsError(result.ret)
    /\ file = Incomplete
    /\ FactorsFit

(***************************************************************************)
(* C30.  For a user_id that is a row of the matrix, what                   *)
(* get_user_recommendations returns is consistent with itself: the number  *)
(* of recommendations is min(n_recommendations, total_available),          *)
(* excluded_rated_items is 0 when exclude_rated is false, and              *)
(* total_available + excluded_rated_items is the number of columns of the  *)
(* rating matrix.  Stated of the instances whose model has been fitted.    *)
(***************************************************************************)
C30_SelfConsistent ==
    ( /\ IsCall("get_user_recommendations")
      /\ ~IsError(result.ret)
      /\ model.fitted
      /\ result.args.user_id \in Users ) =>
        LET ret == result.ret
            n   == result.args.n_recommendations
        IN  /\ Len(ret.recommendations) =
                   IF n < ret.total_available THEN n ELSE ret.total_available
            /\ ~result.args.exclude_rated => ret.excluded_rated_items = 0
            /\ ret.total_available + ret.excluded_rated_items =
                   Cardinality(Items)

====
